---- MODULE Spec2Model ----
(***************************************************************************)
(* A model of the hexagonal grid generator of src/main.py: the HexTile and *)
(* HexGrid classes, the methods of HexGrid and the entry point.            *)
(*                                                                         *)
(* Numbers.  Elevations and temperatures are whole metres / degrees.       *)
(* Planar positions returned by the projection are whole kilometres.       *)
(* Pixel coordinates are exact elements of Q(sqrt 3) with denominator 2:   *)
(* the record [rat |-> a, rt3 |-> b] stands for (a + b*sqrt(3)) / 2.       *)
(* Floating-point rounding of the source is not modelled.                  *)
(***************************************************************************)
EXTENDS Integers, Sequences, FiniteSets, TLC

\* ------------------------------------------------------------------ bounds
\* Radii of the grids built in the free-use specification: 0..MaxRadius.
MaxRadius == 3
\* Seeds of the random generator in the free-use specification: 0..MaxSeed.
MaxSeed == 2
\* Seeds of the random generator in the entry-point specification.
MaxMainSeed == 15
\* simulate_tectonics is run at most MaxSimulations times on a grid.
MaxSimulations == 2

\* ------------------------------------------------------- the random module
\* The generator behind random.uniform and random.choice: a full-period
\* linear congruential generator over 0..RandModulus-1.
RandModulus == 2 ^ 10

NextRand(s) == (5 * s + 3) % RandModulus

\* random.uniform(a, b) for the generator output s: a value of [a, b).
uniform(a, b, s) == a + ((b - a) * s) \div RandModulus

\* random.choice(seq) for the generator output s.
choice(seq, s) == seq[1 + (Len(seq) * s) \div RandModulus]

NaturalResources == <<"None", "Iron", "Gold", "Coal", "Oil">>
Agricultures == <<"None", "Low", "Medium", "High">>

\* ---------------------------------------------------------------- HexTile
\* HexTile(q, r) with the generator in state s0: the tile and the state of
\* the generator after the four draws.
HexTile(q, r, s0) ==
    LET s1 == NextRand(s0)
        s2 == NextRand(s1)
        s3 == NextRand(s2)
        s4 == NextRand(s3)
    IN  [tile |-> [q |-> q,
                   r |-> r,
                   s |-> -q - r,
                   elevation |-> uniform(0, 100, s1),
                   temperature |-> uniform(-30, 50, s2),
                   natural_resources |-> choice(NaturalResources, s3),
                   agriculture |-> choice(Agricultures, s4)],
         rng |-> s4]

\* HexTile.__repr__: the coordinate (q, r) and the four attributes; s is
\* not printed.
TileRepr(t) ==
    <<"HexTile", t.q, t.r, t.elevation, t.temperature,
      t.natural_resources, t.agriculture>>

\* ------------------------------------------------------------ Python dict
\* A dict keeps its keys in insertion order: keys is that order, val the
\* mapping.
EmptyDict == [keys |-> <<>>, val |-> <<>>]

DictHas(d, k) == k \in DOMAIN d.val

\* d[k] = v
DictSet(d, k, v) ==
    IF DictHas(d, k)
    THEN [keys |-> d.keys, val |-> [d.val EXCEPT ![k] = v]]
    ELSE [keys |-> Append(d.keys, k),
          val |-> d.val @@ (k :> v)]

\* d.get(k): the value, or None.
None == [none |-> TRUE]

DictGet(d, k) == IF DictHas(d, k) THEN d.val[k] ELSE None

Max(a, b) == IF b > a THEN b ELSE a
Min(a, b) == IF b < a THEN b ELSE a

\* ---------------------------------------------------------------- HexGrid
\* The element of a one-element set.  TheOnly({F(x) : x \in {e}}) is
\* LET x == e IN F(x) with e evaluated once, before F.
TheOnly(S) == CHOOSE x \in S : TRUE

\* grid[(q, r)] = HexTile(q, r), on the loop's state (the dict and the
\* generator).
AddTile(state, q, r) ==
    LET made == HexTile(q, r, state.rng)
    IN  [grid |-> DictSet(state.grid, <<q, r>>, made.tile), rng |-> made.rng]

\* The inner loop of generate_grid for one q, after its iterations for r
\* from r0 to r1.
RECURSIVE GenerateColumn(_, _, _, _)
GenerateColumn(state, q, r0, r1) ==
    IF r1 < r0
    THEN state
    ELSE TheOnly({AddTile(before, q, r1) :
                     before \in {GenerateColumn(state, q, r0, r1 - 1)}})

\* generate_grid with the inner range not clipped to the hexagon: r runs
\* over -radius..radius for every q.
RECURSIVE GenerateUpToSquare(_, _, _)
GenerateUpToSquare(rng, q1, radius) ==
    IF q1 < -radius
    THEN [grid |-> EmptyDict, rng |-> rng]
    ELSE TheOnly({GenerateColumn(before, q1, -radius, radius) :
                     before \in {GenerateUpToSquare(rng, q1 - 1, radius)}})

\* The outer loop of generate_grid, after its iterations for q from
\* -radius to q1.
RECURSIVE GenerateUpTo(_, _, _)
GenerateUpTo(rng, q1, radius) ==
    IF q1 < -radius
    THEN [grid |-> EmptyDict, rng |-> rng]
    ELSE TheOnly({GenerateColumn(before, q1,
                                 Max(-radius, -q1 - radius),
                                 Min(radius, -q1 + radius)) :
                     before \in {GenerateUpTo(rng, q1 - 1, radius)}})

\* generate_grid for a grid of the given radius, the generator in state rng.
generate_grid(radius, rng) == GenerateUpTo(rng, radius, radius)

\* HexGrid(radius): the object, and the generator's state afterwards.
NewHexGrid(radius, rng) ==
    LET made == generate_grid(radius, rng)
    IN  [obj |-> [radius |-> radius, grid |-> made.grid], rng |-> made.rng]

\* get_tile looking up the key with its coordinates exchanged.
get_tile_swapped(self, q, r) == DictGet(self.grid, <<r, q>>)

\* get_tile(q, r)
get_tile(self, q, r) == DictGet(self.grid, <<q, r>>)

\* hex_to_latlon with the longitude off by one step.
hex_to_latlon_shifted(q, r) ==
    LET scale == 10
        lon == (q + 1) * scale
        lat == r * scale
    IN  <<lon, lat>>

\* hex_to_latlon(q, r): (lon, lat) in degrees.
hex_to_latlon(q, r) ==
    LET scale == 10
        lon == q * scale
        lat == r * scale
    IN  <<lon, lat>>

\* ------------------------------------------------------ pyproj.transform
\* The azimuthal equidistant projection of WGS84 centred at (0, 0), for the
\* longitudes and latitudes 0, 10, ..., 50 degrees, in whole kilometres:
\* AeqdKm[1 + lon/10][1 + lat/10] = <<x, y>>.
AeqdKm ==
    << << <<0, 0>>, <<0, 1106>>, <<0, 2212>>, <<0, 3320>>, <<0, 4430>>, <<0, 5541>> >>,
       << <<1113, 0>>, <<1102, 1111>>, <<1068, 2223>>, <<1010, 3336>>, <<926, 4449>>, <<815, 5563>> >>,
       << <<2226, 0>>, <<2204, 1129>>, <<2134, 2257>>, <<2017, 3384>>, <<1849, 4508>>, <<1625, 5629>> >>,
       << <<3340, 0>>, <<3305, 1158>>, <<3199, 2314>>, <<3019, 3465>>, <<2763, 4609>>, <<2422, 5742>> >>,
       << <<4453, 0>>, <<4405, 1201>>, <<4259, 2397>>, <<4014, 3584>>, <<3663, 4755>>, <<3201, 5903>> >>,
       << <<5566, 0>>, <<5503, 1259>>, <<5314, 2511>>, <<4997, 3745>>, <<4545, 4952>>, <<3953, 6119>> >> >>

Abs(n) == IF n < 0 THEN -n ELSE n
Sign(n) == IF n < 0 THEN -1 ELSE 1

\* transform(proj_wgs84, proj_cartesian, lon, lat): planar (x, y) in
\* kilometres.  The projection is odd in each argument.
transform(lon, lat) ==
    LET e == AeqdKm[1 + Abs(lon) \div 10][1 + Abs(lat) \div 10]
    IN  <<Sign(lon) * e[1], Sign(lat) * e[2]>>

\* math.sqrt, rounded down to a whole number: bisection on lo..hi.
RECURSIVE SqrtBetween(_, _, _)
SqrtBetween(n, lo, hi) ==
    IF lo >= hi
    THEN lo
    ELSE TheOnly({IF mid * mid <= n
                  THEN SqrtBetween(n, mid, hi)
                  ELSE SqrtBetween(n, lo, mid - 1) :
                     mid \in {(lo + hi + 1) \div 2}})

Sqrt(n) == SqrtBetween(n, 0, Min(n, 46340))

\* math.sqrt(x ** 2 + y ** 2) for the projected position of (q, r), in
\* metres.
ProjectedDistance(q, r) ==
    LET lonlat == hex_to_latlon(q, r)
        xy == transform(lonlat[1], lonlat[2])
        x == xy[1]
        y == xy[2]
    IN  1000 * Sqrt(x * x + y * y)

\* The loop body with the floor taken at the previous elevation.
TectonicElevationKeepHigher(q, r, tile) ==
    LET elevation == 1000 - ProjectedDistance(q, r) \div 10
    IN  Max(tile.elevation, elevation)

\* The loop body without the floor at 0.
TectonicElevationNoFloor(q, r, tile) == 1000 - ProjectedDistance(q, r) \div 10

\* The body of the loop of simulate_tectonics for one tile: its elevation,
\* in metres.
TectonicElevation(q, r, tile) ==
    LET elevation == 1000 - ProjectedDistance(q, r) \div 10
    IN  Max(0, elevation)

\* simulate_tectonics writing the result to the temperature field as well.
simulate_tectonics_temperature(self) ==
    [self EXCEPT !.grid.val =
        [k \in DOMAIN self.grid.val |->
            [self.grid.val[k] EXCEPT
                !.elevation = TectonicElevation(k[1], k[2], self.grid.val[k]),
                !.temperature = TectonicElevation(k[1], k[2], self.grid.val[k])]]]

\* simulate_tectonics(): the grid afterwards.
simulate_tectonics(self) ==
    [self EXCEPT !.grid.val =
        [k \in DOMAIN self.grid.val |->
            [self.grid.val[k] EXCEPT
                !.elevation = TectonicElevation(k[1], k[2], self.grid.val[k])]]]

\* ---------------------------------------------------------------- views
\* display_grid(): the lines printed, one per tile in the dict's order.
display_grid(self) ==
    [i \in 1..Len(self.grid.keys) |-> TileRepr(self.grid.val[self.grid.keys[i]])]

\* " " * n
Spaces(n) == [i \in 1..n |-> " "]

\* The cells printed for the q of q0..q1 in row r of visual_grid.
RECURSIVE VisualCells(_, _, _, _)
VisualCells(self, r, q0, q1) ==
    IF q0 > q1
    THEN <<>>
    ELSE (IF DictHas(self.grid, <<q0, r>>) THEN <<"o", " ">> ELSE <<" ", " ">>)
         \o VisualCells(self, r, q0 + 1, q1)

\* The row with q over -radius..radius, not clipped to the hexagon.
VisualRowUnclipped(self, r) ==
    Spaces(self.radius - r)
    \o VisualCells(self, r, -self.radius, self.radius)

\* The characters visual_grid prints for row r, the line's end excluded.
VisualRow(self, r) ==
    Spaces(self.radius - r)
    \o VisualCells(self, r, Max(-self.radius, -r - self.radius),
                   Min(self.radius, -r + self.radius))

\* visual_grid(): the lines printed, for r from -radius to radius.
visual_grid(self) ==
    [i \in 1..(2 * self.radius + 1) |-> VisualRow(self, i - 1 - self.radius)]

\* hex_to_pixel with y = size * (sqrt(3) * (r + q)): the q/2 lost.
hex_to_pixel_whole_q(q, r, size) ==
    LET x == [rat |-> size * (3 * q), rt3 |-> 0]
        y == [rat |-> 0, rt3 |-> size * (2 * r + 2 * q)]
    IN  <<x, y>>

\* hex_to_pixel(q, r, size): x = size * (3/2 * q),
\* y = size * (sqrt(3) * (r + q/2)).
hex_to_pixel(q, r, size) ==
    LET x == [rat |-> size * (3 * q), rt3 |-> 0]
        y == [rat |-> 0, rt3 |-> size * (2 * r + q)]
    IN  <<x, y>>

\* 2 * cos(i * 60 degrees) and 2 * sin(i * 60 degrees) / sqrt(3), i = 0..5.
Cos2 == <<2, 1, -1, -2, -1, 1>>
Sin2 == <<0, 1, 1, 0, -1, -1>>

\* calculate_hex_points(x, y, size): the six vertices.
calculate_hex_points(x, y, size) ==
    [n \in 1..6 |->
        LET px == [rat |-> x.rat + size * Cos2[n], rt3 |-> x.rt3]
            py == [rat |-> y.rat, rt3 |-> y.rt3 + size * Sin2[n]]
        IN  <<px, py>>]

\* get_color_by_elevation with thresholds that are not strict.
get_color_by_elevation_inclusive(elevation) ==
    IF elevation >= 800
    THEN "#8B0000"
    ELSE IF elevation >= 400
         THEN "#FFA500"
         ELSE "#00FF00"

\* get_color_by_elevation(elevation)
get_color_by_elevation(elevation) ==
    IF elevation > 800
    THEN "#8B0000"
    ELSE IF elevation > 400
         THEN "#FFA500"
         ELSE "#00FF00"

\* The polygon export_to_svg adds for the tile under key k.
SvgPolygon(self, k) ==
    LET hex_size == 20
        xy == hex_to_pixel(k[1], k[2], hex_size)
        hex_points == calculate_hex_points(xy[1], xy[2], hex_size)
        color == get_color_by_elevation(self.grid.val[k].elevation)
    IN  [points |-> hex_points, fill |-> color, stroke |-> "black"]

\* export_to_svg(filename): the drawing saved, one polygon per tile in the
\* dict's order.
export_to_svg(self, filename) ==
    [filename |-> filename,
     elements |-> [i \in 1..Len(self.grid.keys) |->
                      SvgPolygon(self, self.grid.keys[i])]]

\* ------------------------------------------------------------------ state
VARIABLES
    hex_grid,   \* the HexGrid object (radius, grid), or NoGrid before it is built
    simulations, \* how many times simulate_tectonics has run on hex_grid
    rng,        \* the state of the random module's generator
    out,        \* the last call: its name, its arguments and what it
                \* returned, printed or saved
    pc          \* the position of the entry point; "lib" in free use

vars == <<hex_grid, simulations, rng, out, pc>>

NoGrid == [absent |-> TRUE]
NoCall == [op |-> "none"]

\* The arguments the calls are tried with.  get_tile is tried on the square
\* that reaches one step beyond the grid's radius.
Coords(radius) == -(radius + 1)..(radius + 1)
PixelCoords == {-1, 0, 1}
Elevations == {0, 100, 399, 400, 401, 500, 799, 800, 801, 900, 1000}
Sizes == {1, 20}

\* Free use of the class: a grid of some radius has been built.
Init ==
    \E seed \in 0..MaxSeed, radius \in 0..MaxRadius :
        LET made == NewHexGrid(radius, seed)
        IN  /\ hex_grid = made.obj
            /\ simulations = 0
            /\ rng = made.rng
            /\ out = NoCall
            /\ pc = "lib"

Call_simulate_tectonics ==
    /\ hex_grid # NoGrid
    /\ simulations < MaxSimulations
    /\ hex_grid' = simulate_tectonics(hex_grid)
    /\ simulations' = simulations + 1
    /\ out' = [op |-> "simulate_tectonics"]
    /\ UNCHANGED rng

Call_get_tile(q, r) ==
    /\ hex_grid # NoGrid
    /\ out' = [op |-> "get_tile", q |-> q, r |-> r,
               ret |-> get_tile(hex_grid, q, r)]
    /\ UNCHANGED <<hex_grid, simulations, rng>>

Call_display_grid ==
    /\ hex_grid # NoGrid
    /\ out' = [op |-> "display_grid", printed |-> display_grid(hex_grid)]
    /\ UNCHANGED <<hex_grid, simulations, rng>>

Call_visual_grid ==
    /\ hex_grid # NoGrid
    /\ out' = [op |-> "visual_grid", printed |-> visual_grid(hex_grid)]
    /\ UNCHANGED <<hex_grid, simulations, rng>>

Call_export_to_svg(filename) ==
    /\ hex_grid # NoGrid
    /\ out' = [op |-> "export_to_svg",
               saved |-> export_to_svg(hex_grid, filename)]
    /\ UNCHANGED <<hex_grid, simulations, rng>>

Call_get_color_by_elevation(elevation) ==
    /\ out' = [op |-> "get_color_by_elevation", elevation |-> elevation,
               ret |-> get_color_by_elevation(elevation)]
    /\ UNCHANGED <<hex_grid, simulations, rng>>

Call_hex_to_pixel(q, r, size) ==
    /\ out' = [op |-> "hex_to_pixel", q |-> q, r |-> r, size |-> size,
               ret |-> hex_to_pixel(q, r, size)]
    /\ UNCHANGED <<hex_grid, simulations, rng>>

Next ==
    \/ Call_simulate_tectonics /\ UNCHANGED pc
    \/ \E q \in Coords(hex_grid.radius), r \in Coords(hex_grid.radius) :
           Call_get_tile(q, r) /\ UNCHANGED pc
    \/ Call_display_grid /\ UNCHANGED pc
    \/ Call_visual_grid /\ UNCHANGED pc
    \/ Call_export_to_svg("hexmap.svg") /\ UNCHANGED pc
    \/ \E e \in Elevations : Call_get_color_by_elevation(e) /\ UNCHANGED pc
    \/ \E q \in PixelCoords, r \in PixelCoords, size \in Sizes :
           Call_hex_to_pixel(q, r, size) /\ UNCHANGED pc

Spec == Init /\ [][Next]_vars

\* ------------------------------------------------------- the entry point
\* if __name__ == "__main__": the statements in order.
MainInit ==
    /\ hex_grid = NoGrid
    /\ simulations = 0
    /\ rng \in 0..MaxMainSeed
    /\ out = NoCall
    /\ pc = "start"

\* hex_grid = HexGrid(radius), radius = 3
MainConstruct ==
    /\ pc = "start"
    /\ LET radius == 3
           made == NewHexGrid(radius, rng)
       IN  /\ hex_grid' = made.obj
           /\ rng' = made.rng
    /\ out' = [op |-> "HexGrid"]
    /\ simulations' = 0
    /\ pc' = "constructed"

\* The entry point going on to the views without running the simulation.
MainSkipSimulate ==
    /\ pc = "constructed"
    /\ out' = [op |-> "simulate_tectonics"]
    /\ simulations' = simulations + 1
    /\ UNCHANGED <<hex_grid, rng>>
    /\ pc' = "simulated"

\* hex_grid.simulate_tectonics()
MainSimulate ==
    /\ pc = "constructed"
    /\ Call_simulate_tectonics
    /\ pc' = "simulated"

\* hex_grid.display_grid()
MainDisplay ==
    /\ pc = "simulated"
    /\ Call_display_grid
    /\ pc' = "displayed"

\* hex_grid.visual_grid()
MainVisual ==
    /\ pc = "displayed"
    /\ Call_visual_grid
    /\ pc' = "visualized"

\* hex_grid.export_to_svg("hexmap.svg")
MainExport ==
    /\ pc = "visualized"
    /\ Call_export_to_svg("hexmap.svg")
    /\ pc' = "exported"

\* tile = hex_grid.get_tile(0, 0)
MainGetTile ==
    /\ pc = "exported"
    /\ Call_get_tile(0, 0)
    /\ pc' = "done"

MainNext ==
    \/ MainConstruct
    \/ MainSimulate
    \/ MainDisplay
    \/ MainVisual
    \/ MainExport
    \/ MainGetTile

\* The entry point is one sequential run: a statement that can run does.
MainSpec == MainInit /\ [][MainNext]_vars /\ WF_vars(MainNext)

\* ------------------------------------------------------------- properties
\* The hexagonal region of radius R: the pairs with max(|q|, |r|, |-q-r|) <= R.
InRegion(q, r, R) == Abs(q) <= R /\ Abs(r) <= R /\ Abs(-q - r) <= R

Region(R) ==
    {k \in (-(R + 1)..(R + 1)) \X (-(R + 1)..(R + 1)) : InRegion(k[1], k[2], R)}

SeqRange(seq) == {seq[i] : i \in 1..Len(seq)}

\* C1: the key set of a generated grid of radius R is exactly the hexagonal
\* region of radius R (nothing missing, nothing outside), the grid holds
\* 3R^2 + 3R + 1 tiles, each key once, and the tile under (q, r) has the
\* fields q, r and s = -q - r, so that q + r + s = 0.
C1_GridIsHexRegion ==
    hex_grid # NoGrid =>
        LET R == hex_grid.radius
            grid == hex_grid.grid
        IN  /\ DOMAIN grid.val = Region(R)
            /\ \A k \in DOMAIN grid.val : InRegion(k[1], k[2], R)
            /\ Cardinality(DOMAIN grid.val) = 3 * R * R + 3 * R + 1
            /\ Len(grid.keys) = 3 * R * R + 3 * R + 1
            /\ SeqRange(grid.keys) = DOMAIN grid.val
            /\ \A k \in DOMAIN grid.val :
                   /\ grid.val[k].q = k[1]
                   /\ grid.val[k].r = k[2]
                   /\ grid.val[k].s = -k[1] - k[2]
                   /\ grid.val[k].q + grid.val[k].r + grid.val[k].s = 0

\* A grid of radius 2: its 19 tiles, a corner of the region and a pair of
\* the square outside it.
C1_Witness ==
    /\ hex_grid # NoGrid
    /\ hex_grid.radius = 2
    /\ Len(hex_grid.grid.keys) = 19
    /\ DictHas(hex_grid.grid, <<2, -2>>)
    /\ ~DictHas(hex_grid.grid, <<2, 2>>)

\* C2: a get_tile(q, r) call returns None for a pair outside the hexagonal
\* region and the tile whose coordinate is (q, r) for a pair inside it, and
\* leaves the grid (key set and every tile field) as it was.
C2_GetTile ==
    [][out'.op = "get_tile" =>
          /\ hex_grid' = hex_grid
          /\ IF InRegion(out'.q, out'.r, hex_grid.radius)
             THEN /\ out'.ret # None
                  /\ out'.ret = hex_grid.grid.val[<<out'.q, out'.r>>]
                  /\ out'.ret.q = out'.q
                  /\ out'.ret.r = out'.r
             ELSE out'.ret = None]_vars

\* A lookup outside the region, within the square of the radius, that
\* returned None.
C2_Witness ==
    /\ out.op = "get_tile"
    /\ hex_grid.radius >= 1
    /\ out.q = hex_grid.radius
    /\ out.r = 1
    /\ out.ret = None

\* C3: after simulate_tectonics every tile's elevation is
\* max(0, 1000 - d/10), d the distance of its projected position from the
\* origin: never negative, and exactly 0 when d exceeds 10000.
C3_ElevationFloor ==
    (hex_grid # NoGrid /\ simulations > 0) =>
        \A k \in DOMAIN hex_grid.grid.val :
            LET d == ProjectedDistance(k[1], k[2])
                e == hex_grid.grid.val[k].elevation
            IN  /\ e >= 0
                /\ e = (IF 1000 - d \div 10 > 0 THEN 1000 - d \div 10 ELSE 0)
                /\ d > 10000 => e = 0

\* A simulated grid with a tile projected further than 10000 from the
\* origin, its elevation 0.
C3_Witness ==
    /\ hex_grid # NoGrid
    /\ simulations > 0
    /\ \E k \in DOMAIN hex_grid.grid.val :
           /\ ProjectedDistance(k[1], k[2]) > 10000
           /\ hex_grid.grid.val[k].elevation = 0

\* C4: after simulate_tectonics the tile at (0, 0) has elevation exactly
\* 1000, and no tile has an elevation above 1000.
C4_PeakAtOrigin ==
    (hex_grid # NoGrid /\ simulations > 0) =>
        /\ hex_grid.grid.val[<<0, 0>>].elevation = 1000
        /\ \A k \in DOMAIN hex_grid.grid.val :
               hex_grid.grid.val[k].elevation <= 1000

\* A simulated grid of more than one tile.
C4_Witness ==
    /\ hex_grid # NoGrid
    /\ simulations > 0
    /\ hex_grid.radius >= 1
    /\ hex_grid.grid.val[<<0, 0>>].elevation = 1000

\* C5: get_color_by_elevation(e) is dark red exactly when e > 800, orange
\* exactly when 400 < e <= 800 and green exactly when e <= 400; it is always
\* one of the three.
C5_ColorThresholds ==
    out.op = "get_color_by_elevation" =>
        LET e == out.elevation
            c == out.ret
        IN  /\ c \in {"#8B0000", "#FFA500", "#00FF00"}
            /\ c = "#8B0000" <=> e > 800
            /\ c = "#FFA500" <=> (400 < e /\ e <= 800)
            /\ c = "#00FF00" <=> e <= 400
            /\ e = 800 => c = "#FFA500"
            /\ e = 400 => c = "#00FF00"

\* The boundary 800, mapped to orange.
C5_Witness ==
    /\ out.op = "get_color_by_elevation"
    /\ out.elevation = 800
    /\ out.ret = "#FFA500"

\* C6 as stated: hex_to_pixel(1, 0, 20) gives x = 30 and y = 20 * sqrt(3),
\* about 34.64.
C6_Original ==
    (out.op = "hex_to_pixel" /\ out.q = 1 /\ out.r = 0 /\ out.size = 20) =>
        LET x == out.ret[1]
            y == out.ret[2]
        IN  /\ x = [rat |-> 60, rt3 |-> 0]
            /\ y = [rat |-> 0, rt3 |-> 40]
            \* 34.64 <= y < 34.65, squared: (100 y)^2 = 7500 * rt3^2
            /\ 3464 * 3464 <= 7500 * y.rt3 * y.rt3
            /\ 7500 * y.rt3 * y.rt3 < 3465 * 3465

\* C6, amended: hex_to_pixel(1, 0, 20) gives x = 30 and
\* y = 20 * sqrt(3) * (0 + 1/2) = 10 * sqrt(3), about 17.32.
C6_PixelCenter ==
    (out.op = "hex_to_pixel" /\ out.q = 1 /\ out.r = 0 /\ out.size = 20) =>
        LET x == out.ret[1]
            y == out.ret[2]
        IN  /\ x = [rat |-> 60, rt3 |-> 0]
            /\ y = [rat |-> 0, rt3 |-> 20]
            \* 17.32 <= y < 17.33, squared
            /\ 1732 * 1732 <= 7500 * y.rt3 * y.rt3
            /\ 7500 * y.rt3 * y.rt3 < 1733 * 1733

\* hex_to_pixel has been called with q = 1, r = 0, size = 20.
C6_Witness ==
    /\ out.op = "hex_to_pixel"
    /\ out.q = 1
    /\ out.r = 0
    /\ out.size = 20

\* n markers "o ".
Markers(n) == [j \in 1..(2 * n) |-> IF j % 2 = 1 THEN "o" ELSE " "]

\* The rows of the visual view of a grid of radius R whose row r is indented
\* by unit * (R - r) spaces and holds 2R + 1 - |r| markers.
VisualRows(R, unit) ==
    [i \in 1..(2 * R + 1) |->
        LET r == i - 1 - R
        IN  Spaces(unit * (R - r)) \o Markers(2 * R + 1 - Abs(r))]

\* C7 as stated: the visual view prints one row per r from -R to R, row r
\* being 2 * (R - r) spaces followed by 2R + 1 - |r| markers "o ".
C7_Original ==
    out.op = "visual_grid" =>
        LET R == hex_grid.radius
        IN  out.printed = VisualRows(R, 2)

\* C7, amended: the visual view prints one row per r from -R to R in
\* increasing order, row r being R - r single spaces followed by one marker
\* "o " for each q of [max(-R, -r-R), min(R, -r+R)], 2R + 1 - |r| markers,
\* and never a blank cell.
C7_VisualGrid ==
    out.op = "visual_grid" =>
        LET R == hex_grid.radius
        IN  /\ Len(out.printed) = 2 * R + 1
            /\ out.printed = VisualRows(R, 1)
            /\ \A i \in 1..(2 * R + 1) :
                   LET r == i - 1 - R
                       cells == Min(R, -r + R) - Max(-R, -r - R) + 1
                   IN  /\ cells = 2 * R + 1 - Abs(r)
                       /\ Len(out.printed[i]) = (R - r) + 2 * cells

\* The visual view of a grid of radius 2 has been printed.
C7_Witness ==
    /\ out.op = "visual_grid"
    /\ hex_grid.radius = 2
    /\ Len(out.printed) = 5

\* C8: once the grid is built its key set never changes and elevation is
\* the only tile field that changes; only simulate_tectonics changes the
\* grid at all: the views, get_tile and the pure helpers leave it as it was.
C8_Frame ==
    [][hex_grid # NoGrid =>
          /\ out'.op # "simulate_tectonics" => hex_grid' = hex_grid
          /\ out'.op = "simulate_tectonics" =>
                 /\ hex_grid' # NoGrid
                 /\ hex_grid'.radius = hex_grid.radius
                 /\ hex_grid'.grid.keys = hex_grid.grid.keys
                 /\ DOMAIN hex_grid'.grid.val = DOMAIN hex_grid.grid.val
                 /\ \A k \in DOMAIN hex_grid.grid.val :
                        [hex_grid'.grid.val[k] EXCEPT
                            !.elevation = hex_grid.grid.val[k].elevation]
                        = hex_grid.grid.val[k]]_vars

\* A view taken of a simulated grid of more than one tile.
C8_Witness ==
    /\ hex_grid # NoGrid
    /\ simulations > 0
    /\ hex_grid.radius >= 1
    /\ out.op = "export_to_svg"

\* The elevation simulate_tectonics gives the tile under key k.
SimulatedElevation(k) ==
    LET d == ProjectedDistance(k[1], k[2])
    IN  IF 1000 - d \div 10 > 0 THEN 1000 - d \div 10 ELSE 0

MainOrder ==
    <<"start", "constructed", "simulated", "displayed", "visualized",
      "exported", "done">>
MainOps ==
    <<"HexGrid", "simulate_tectonics", "display_grid", "visual_grid",
      "export_to_svg", "get_tile">>

\* What each position of the entry point has seen.
C9_Seen ==
    /\ pc # "start" => (hex_grid # NoGrid /\ hex_grid.radius = 3)
    /\ pc = "constructed" => simulations = 0
    /\ pc \in {"simulated", "displayed", "visualized", "exported", "done"} =>
           simulations = 1
    /\ pc = "displayed" =>
           /\ Len(out.printed) = Len(hex_grid.grid.keys)
           /\ \A i \in 1..Len(out.printed) :
                  out.printed[i][4] = SimulatedElevation(hex_grid.grid.keys[i])
    /\ pc = "exported" =>
           /\ out.saved.filename = "hexmap.svg"
           /\ Len(out.saved.elements) = Len(hex_grid.grid.keys)
           /\ \A i \in 1..Len(out.saved.elements) :
                  out.saved.elements[i].fill =
                      (IF SimulatedElevation(hex_grid.grid.keys[i]) > 800
                       THEN "#8B0000"
                       ELSE IF SimulatedElevation(hex_grid.grid.keys[i]) > 400
                            THEN "#FFA500"
                            ELSE "#00FF00")
    /\ pc = "done" =>
           /\ out.q = 0
           /\ out.r = 0
           /\ out.ret # None
           /\ out.ret.elevation = 1000

\* C9: the entry point runs construction (radius 3), simulate_tectonics,
\* display_grid, visual_grid, export_to_svg("hexmap.svg") and get_tile(0, 0)
\* in that order, each once; the views and the lookup see the simulated
\* elevations; and the run reaches its end.
C9_EntryPoint ==
    /\ [][\E n \in 1..6 : /\ pc = MainOrder[n]
                          /\ pc' = MainOrder[n + 1]
                          /\ out'.op = MainOps[n]]_vars
    /\ []C9_Seen
    /\ <>(pc = "done")

\* The end of the run: the lookup of (0, 0) returned the simulated tile.
C9_Witness ==
    /\ pc = "done"
    /\ out.op = "get_tile"
    /\ out.ret # None
    /\ out.ret.elevation = 1000
    /\ simulations = 1

\* The elevations of the grid of the same radius built from the generator
\* seed, after simulate_tectonics.
ElevationsFromSeed(radius, seed) ==
    LET other == simulate_tectonics(NewHexGrid(radius, seed).obj)
    IN  [k \in DOMAIN other.grid.val |-> other.grid.val[k].elevation]

\* C10: the elevation simulate_tectonics assigns depends on the coordinate
\* alone: a second run leaves the grid as the first left it, and grids of
\* the same radius built from other random draws have the same elevation at
\* every coordinate after simulation.
C10_CoordinateOnly ==
    /\ [][(out'.op = "simulate_tectonics" /\ simulations > 0) =>
             hex_grid' = hex_grid]_vars
    /\ [](out.op = "simulate_tectonics" =>
             \A seed \in 0..MaxSeed :
                 ElevationsFromSeed(hex_grid.radius, seed) =
                     [k \in DOMAIN hex_grid.grid.val |->
                         hex_grid.grid.val[k].elevation])

\* simulate_tectonics has just run a second time on a grid of more than one
\* tile.
C10_Witness ==
    /\ out.op = "simulate_tectonics"
    /\ simulations = 2
    /\ hex_grid.radius >= 1

====
